---------------------------- MODULE Spec2Model ----------------------------
(***************************************************************************)
(* A model of the BrightSites data extractor: the retrying request        *)
(* executor and the paginated fetcher (lib/brightSites.js), the promise    *)
(* pool that enriches orders, and the row assembly of POST /api/run.       *)
(***************************************************************************)
EXTENDS Integers, Sequences, FiniteSets, TLC

VARIABLES
    \* ---- one fetchAllPages call (SpecFetch)
    pageSize,   \* the pageSize argument
    page,       \* let page
    out,        \* const out
    i,          \* safeFetch's loop index of the request in progress
    fpc,        \* where the call is: "attempt", "sleep", "done", "failed"
    reqLog,     \* every fetch() issued: its page and per_page parameters
    served,     \* the arrays extracted from the 2xx responses, in order
    attempts,   \* the outcomes of the attempts of the request in progress
    delays,     \* the sleeps of the request in progress
    fetchErr,   \* the error fetchAllPages rejected with, or NoError
    safeRes     \* how the last safeFetch ended: "pending", "response", "error", "undefined"

fetchVars == <<pageSize, page, out, i, fpc, reqLog, served, attempts, delays, fetchErr, safeRes>>

VARIABLES
    \* ---- one promisePool call over the fetched orders (SpecPool)
    orders,     \* items: the order snapshots of the list fetch
    failing,    \* the upstream: failing[k] is the sub-fetch of order k that fails, or "none"
    nextIdx,    \* let i: how many items have been claimed
    pending,    \* pending[k]: the requests of order k's task still in flight
    finished,   \* the items whose results slot has been written
    alive,      \* the runners that have not left their loop
    results,    \* const results
    ppc         \* "new", "running", "resolved"

poolVars == <<orders, failing, nextIdx, pending, finished, alive, results, ppc>>

VARIABLES
    \* ---- the reconciliation of one order, line item and shipment list (SpecRow)
    rOrder,     \* the merged order
    rLi,        \* the line item
    rShips,     \* the shipments of the order
    rpc,        \* "input", then the call that was made
    rOut        \* what the call returned

rowVars == <<rOrder, rLi, rShips, rpc, rOut>>

VARIABLES
    \* ---- one POST /api/run request (SpecRun)
    req,        \* req.body
    runpc,      \* "received", "fetching", "fetched", "enriching", "responded"
    resp,       \* the response sent, or NoResponse
    contacted   \* whether a request was sent to the upstream

runVars == <<req, runpc, resp, contacted>>

VARIABLES
    \* ---- one composeAddressBlob call of the row assembly (SpecBlob)
    bOrder,     \* the order of the row
    bCall,      \* the call site: "billing", "shipping", "summaryBilling", "summaryShipping"
    bShip,      \* the representative shipment handed over as extras.shipment, or null
    bpc,        \* "input", then "composed"
    bOut        \* what the call returned

blobVars == <<bOrder, bCall, bShip, bpc, bOut>>

vars == <<fetchVars, poolVars, rowVars, runVars, blobVars>>

(***************************************************************************)
(* Bounds of the model.                                                    *)
(***************************************************************************)
MaxPageSize == 2
MaxPages == 3
MaxOrders == 6
MaxShipments == 3
MaxRunOrders == 3
MaxFields == 2

(***************************************************************************)
(* JavaScript values.  A string is a sequence of characters; an object is  *)
(* a sequence of <<key, value>> pairs in insertion order.                  *)
(***************************************************************************)
Undef == [t |-> "undefined"]
Null == [t |-> "null"]
Str(s) == [t |-> "string", s |-> s]
Num(n) == [t |-> "number", n |-> n]
Arr(a) == [t |-> "array", a |-> a]
Obj(o) == [t |-> "object", o |-> o]

IsArray(v) == v.t = "array"

HasKey(v, k) == v.t = "object" /\ \E j \in 1..Len(v.o) : v.o[j][1] = k

\* v[k]: the property k of v, undefined when v has none
Prop(v, k) ==
    IF HasKey(v, k)
    THEN v.o[CHOOSE j \in 1..Len(v.o) : v.o[j][1] = k][2]
    ELSE Undef

(***************************************************************************)
(* safeFetch(url, opts, retries = 2, delay = 500)                          *)
(***************************************************************************)
Retries == 2
Delay == 500

NoError == "none"
HttpError == "HTTP status statusText"
TransportError == "transport message"
FailKinds == {HttpError, TransportError}

\* for (let i = 0; i <= retries; i++)
LoopCondBad(k) == k < Retries
LoopCond(k) == k <= Retries

\* if (i === retries) throw err;
LastAttempt(k) == k = Retries

(***************************************************************************)
(* fetchAllPages(path, params, pageSize, opts)                             *)
(***************************************************************************)
\* the items the upstream serves on page p when it serves n of them
PageItems(p, n) == [j \in 1..n |-> Num(10 * p + j)]

\* the response bodies the upstream may send for an array of items
Bodies(arr) ==
    { Arr(arr),
      Obj(<< <<"orders", Arr(arr)>> >>),
      Obj(<< <<"tags", Arr(<<>>)>>, <<"orders", Arr(arr)>> >>),
      Obj(<< <<"total", Num(Len(arr))>>, <<"items", Arr(arr)>> >>),
      Obj(<< <<"data", Arr(arr)>> >>),
      Obj(<< <<"results", Arr(arr)>> >>),
      Obj(<< <<"total", Num(Len(arr))>>, <<"line_items", Arr(arr)>>, <<"more", Arr(<<>>)>> >>) }

\* bodies that hold no array at all
NoArrayBodies == { Null, Obj(<<>>), Obj(<< <<"total", Num(0)>> >>), Str(<<"o", "k">>) }

\* for (const v of Object.values(json)) if (Array.isArray(v)) { arr = v; break; }
FirstArrayProp(json) ==
    LET idx == { j \in 1..Len(json.o) : IsArray(json.o[j][2]) }
    IN IF idx = {} THEN <<>>
       ELSE json.o[CHOOSE j \in idx : \A k \in idx : j <= k][2].a

\* lines 50-64: the array of a response body
ExtractArray(json) ==
    IF IsArray(json) THEN json.a
    ELSE IF json.t = "object"
    THEN IF IsArray(Prop(json, "orders")) THEN Prop(json, "orders").a
         ELSE IF IsArray(Prop(json, "items")) THEN Prop(json, "items").a
         ELSE IF IsArray(Prop(json, "data")) THEN Prop(json, "data").a
         ELSE IF IsArray(Prop(json, "results")) THEN Prop(json, "results").a
         ELSE FirstArrayProp(json)
    ELSE <<>>

\* if (arr.length < pageSize) break;
ShortPageBad(arr, n) == Len(arr) <= n
ShortPageLate(arr, n) == Len(arr) < n - 1
ShortPage(arr, n) == Len(arr) < n

\* const p = Object.assign({}, params, { page, per_page: pageSize, token });
Request == [page |-> page, per_page |-> pageSize]

\* the log of the request in progress: a new request starts a new log
LogOf(log) == IF i = 0 THEN <<>> ELSE log

\* a 2xx response: safeFetch returns it, the body is read and the page handled
AttemptOk ==
    /\ fpc = "attempt"
    /\ \E n \in 0..(pageSize + 1) :
       \E json \in (IF n = 0 THEN NoArrayBodies ELSE {}) \cup Bodies(PageItems(page, n)) :
         LET arr == ExtractArray(json) IN
           /\ page = MaxPages => n < pageSize
           /\ reqLog' = Append(reqLog, Request)
           /\ attempts' = Append(LogOf(attempts), "ok")
           /\ delays' = LogOf(delays)
           /\ served' = Append(served, PageItems(page, n))
           /\ safeRes' = "response"
           /\ IF Len(arr) = 0
              THEN /\ fpc' = "done"
                   /\ UNCHANGED <<out, page, i>>
              ELSE /\ out' = out \o arr
                   /\ IF ShortPage(arr, pageSize)
                      THEN /\ fpc' = "done"
                           /\ UNCHANGED <<page, i>>
                      ELSE /\ page' = page + 1
                           /\ i' = 0
                           /\ fpc' = "attempt"
    /\ UNCHANGED <<pageSize, fetchErr>>
    /\ UNCHANGED <<poolVars, rowVars, runVars, blobVars>>

\* a transport exception or a non-2xx status
AttemptFail ==
    /\ fpc = "attempt"
    /\ \E kind \in FailKinds :
         /\ reqLog' = Append(reqLog, Request)
         /\ attempts' = Append(LogOf(attempts), kind)
         /\ delays' = LogOf(delays)
         /\ IF LastAttempt(i)
            THEN /\ fpc' = "failed"
                 /\ fetchErr' = kind
                 /\ safeRes' = "error"
            ELSE /\ fpc' = "sleep"
                 /\ safeRes' = "pending"
                 /\ UNCHANGED fetchErr
    /\ UNCHANGED <<pageSize, page, out, i, served>>
    /\ UNCHANGED <<poolVars, rowVars, runVars, blobVars>>

\* await sleep(delay); i++; a loop that ends returns undefined, and
\* fetchAllPages then breaks: if (!res) break;
SleepDone ==
    /\ fpc = "sleep"
    /\ delays' = Append(delays, Delay)
    /\ i' = i + 1
    /\ IF LoopCond(i + 1)
       THEN fpc' = "attempt" /\ UNCHANGED safeRes
       ELSE fpc' = "done" /\ safeRes' = "undefined"
    /\ UNCHANGED <<pageSize, page, out, reqLog, served, attempts, fetchErr>>
    /\ UNCHANGED <<poolVars, rowVars, runVars, blobVars>>

InitFetch ==
    /\ pageSize \in 1..MaxPageSize
    /\ page = 1
    /\ out = <<>>
    /\ i = 0
    /\ fpc = "attempt"
    /\ reqLog = <<>>
    /\ served = <<>>
    /\ attempts = <<>>
    /\ delays = <<>>
    /\ fetchErr = NoError
    /\ safeRes = "pending"



(***************************************************************************)
(* Objects.                                                                *)
(***************************************************************************)
Keys(v) == { v.o[j][1] : j \in 1..Len(v.o) }

RECURSIVE SetProp(_, _, _)
\* o[k] = x on a sequence of pairs: an existing key keeps its place
SetProp(o, k, x) ==
    IF o = <<>> THEN << <<k, x>> >>
    ELSE IF Head(o)[1] = k THEN << <<k, x>> >> \o Tail(o)
    ELSE <<Head(o)>> \o SetProp(Tail(o), k, x)

RECURSIVE AssignPairs(_, _)
AssignPairs(o, src) ==
    IF src = <<>> THEN o
    ELSE AssignPairs(SetProp(o, Head(src)[1], Head(src)[2]), Tail(src))

\* Object.assign(target, src): a source that is no object gives no property
ObjAssign(target, src) ==
    IF src.t = "object" THEN Obj(AssignPairs(target.o, src.o)) ELSE target

\* v || w
Truthy(v) ==
    CASE v.t = "undefined" -> FALSE
      [] v.t = "null" -> FALSE
      [] v.t = "string" -> v.s # <<>>
      [] v.t = "number" -> v.n # 0
      [] v.t = "boolean" -> v.b
      [] OTHER -> TRUE

Or(v, w) == IF Truthy(v) THEN v ELSE w

\* v.k: reading a property of undefined or null throws a TypeError
Throws(v) == v.t \in {"undefined", "null"}

(***************************************************************************)
(* The upstream's orders.                                                  *)
(***************************************************************************)
S(c) == Str(<<c>>)

\* the snapshot of order k in the list response, and its show-order detail
Snapshot(k) == Obj(<< <<"id", Num(k)>>, <<"status", S("new")>>, <<"note", S("n")>> >>)
Detail(k) ==
    Obj(<< <<"id", Num(k)>>, <<"status", S("shipped")>>, <<"shipping_method", S("UPS")>> >>)
LineItemsOf(k) == [j \in 1..(k % 3) |-> Obj(<< <<"id", Num(10 * k + j)>> >>)]
ShipmentsOf(k) ==
    << Obj(<< <<"tracking_number", S("T")>>, <<"line_item_ids", Arr(<<Num(10 * k + 1)>>)>> >>) >>

(***************************************************************************)
(* loadOrder, loadLineItems, loadShipments: each catches the error of its *)
(* fetch (retries exhausted) and answers with an empty value.              *)
(***************************************************************************)
Thrown == [thrown |-> "Error"]

\* } catch (err) { console.warn('loadOrder error', err.message); return {}; }
LoadOrderRethrow(id, fails) ==
    IF ~Truthy(id) THEN Obj(<<>>) ELSE IF fails THEN Thrown ELSE Detail(id.n)
LoadOrder(id, fails) ==
    IF ~Truthy(id) THEN Obj(<<>>) ELSE IF fails THEN Obj(<<>>) ELSE Detail(id.n)

\* the upstream may serve a malformed list: a null among the line items
LoadLineItems(id, upstream) ==
    IF ~Truthy(id) THEN <<>>
    ELSE IF upstream = "line_items" THEN <<>>
    ELSE IF upstream = "malformed" THEN <<Null>>
    ELSE LineItemsOf(id.n)

LoadShipments(id, fails) ==
    IF ~Truthy(id) THEN <<>> ELSE IF fails THEN <<>> ELSE ShipmentsOf(id.n)

\* const orderIdentifier = order.id || order.order_id || order.orderNumber || order.number;
OrderIdentifier(order) ==
    Or(Or(Or(Prop(order, "id"), Prop(order, "order_id")), Prop(order, "orderNumber")),
       Prop(order, "number"))

(***************************************************************************)
(* promisePool(items, worker, concurrency = 5) with the enrichment worker  *)
(***************************************************************************)
Concurrency == 5

\* new Array(concurrency).fill(null).map(async () => ...)
NumRunnersBad == Concurrency + 1
NumRunners == Concurrency

Hole == [hole |-> TRUE]
ErrorMarker == [error |-> "TypeError"]

\* the worker: the outcome of the enrichment of order k
WorkerResult(order, fail) ==
    IF Throws(order) THEN ErrorMarker
    ELSE LET id == OrderIdentifier(order)
             fullOrder == LoadOrder(id, fail = "order")
         IN IF fullOrder = Thrown THEN ErrorMarker
            ELSE [order |-> ObjAssign(ObjAssign(Obj(<<>>), order), Or(fullOrder, Obj(<<>>))),
                  line_items |-> LoadLineItems(id, fail),
                  shipments |-> LoadShipments(id, fail = "shipments")]

\* the requests a task issues when it starts
RequestsOf(order) ==
    IF Throws(order) THEN 0 ELSE IF Truthy(OrderIdentifier(order)) THEN 3 ELSE 0

N == Len(orders)
InFlight == { k \in 1..nextIdx : k \notin finished }

\* while (i < items.length) { const idx = i++; ... await worker(items[idx], idx)
\* run by r runners one after the other, each up to its first await
Claim(r, from) ==
    LET take == IF N - from < r THEN N - from ELSE r
    IN /\ nextIdx' = from + take
       /\ pending' = [k \in 1..N |->
                        IF k > from /\ k <= from + take THEN RequestsOf(orders[k])
                        ELSE pending[k]]
       /\ alive' = alive - (r - take)

PoolStart ==
    /\ ppc = "new"
    /\ ppc' = "running"
    /\ alive' = NumRunners - (IF N < NumRunners THEN NumRunners - N ELSE 0)
    /\ nextIdx' = IF N < NumRunners THEN N ELSE NumRunners
    /\ pending' = [k \in 1..N |-> IF k <= NumRunners THEN RequestsOf(orders[k]) ELSE 0]
    /\ UNCHANGED <<orders, failing, finished, results>>
    /\ UNCHANGED <<fetchVars, rowVars, runVars, blobVars>>

\* one request of order k's task ends, served or failed for good, while
\* others of the task are still in flight
SubFetchDone(k) ==
    /\ ppc = "running"
    /\ k \in InFlight
    /\ pending[k] > 1
    /\ pending' = [pending EXCEPT ![k] = @ - 1]
    /\ UNCHANGED <<orders, failing, nextIdx, finished, alive, results, ppc>>
    /\ UNCHANGED <<fetchVars, rowVars, runVars, blobVars>>

\* a variant that stores the outcomes in the order in which the tasks settle
ResumeInCompletionOrder(k) ==
    /\ results' = [results EXCEPT ![Cardinality(finished) + 1] =
                                     WorkerResult(orders[k], failing[k])]
    /\ finished' = finished \cup {k}
    /\ Claim(1, nextIdx)
    /\ UNCHANGED <<orders, failing, ppc>>
    /\ UNCHANGED <<fetchVars, rowVars, runVars, blobVars>>

\* the task of order k has settled: its runner writes results[idx] and
\* claims the next item, or leaves its loop
Resume(k) ==
    /\ results' = [results EXCEPT ![k] = WorkerResult(orders[k], failing[k])]
    /\ finished' = finished \cup {k}
    /\ Claim(1, nextIdx)
    /\ UNCHANGED <<orders, failing, ppc>>
    /\ UNCHANGED <<fetchVars, rowVars, runVars, blobVars>>

\* the last request of order k's task ends: Promise.all settles
LastFetchDone(k) ==
    /\ ppc = "running"
    /\ k \in InFlight
    /\ pending[k] = 1
    /\ Resume(k)

\* a task that issued no request (its worker threw, or the order has no
\* identifier) settles at once
RunnerResume(k) ==
    /\ ppc = "running"
    /\ k \in InFlight
    /\ pending[k] = 0
    /\ Resume(k)

\* await Promise.all(runners); return results;
PoolResolve ==
    /\ ppc = "running"
    /\ alive = 0
    /\ ppc' = "resolved"
    /\ UNCHANGED <<orders, failing, nextIdx, pending, finished, alive, results>>
    /\ UNCHANGED <<fetchVars, rowVars, runVars, blobVars>>

FailKindsOfOrder == {"order", "line_items", "shipments", "null", "noid"}

OrderOf(k, kind) ==
    CASE kind = "null" -> Null
      [] kind = "noid" -> Obj(<< <<"status", S("new")>> >>)
      [] OTHER -> Snapshot(k)

InitPool ==
    /\ \E n \in 0..MaxOrders : \E bad \in 0..n : \E kind \in FailKindsOfOrder :
         /\ orders = [k \in 1..n |-> IF k = bad THEN OrderOf(k, kind) ELSE Snapshot(k)]
         /\ failing = [k \in 1..n |-> IF k = bad THEN kind ELSE "none"]
         /\ pending = [k \in 1..n |-> 0]
         /\ results = [k \in 1..n |-> Hole]
    /\ nextIdx = 0
    /\ finished = {}
    /\ alive = 0
    /\ ppc = "new"

FetchIdle ==
    /\ pageSize = 1
    /\ page = 1
    /\ out = <<>>
    /\ i = 0
    /\ fpc = "idle"
    /\ reqLog = <<>>
    /\ served = <<>>
    /\ attempts = <<>>
    /\ delays = <<>>
    /\ fetchErr = NoError
    /\ safeRes = "pending"

PoolIdle ==
    /\ orders = <<>>
    /\ failing = <<>>
    /\ nextIdx = 0
    /\ pending = <<>>
    /\ finished = {}
    /\ alive = 0
    /\ results = <<>>
    /\ ppc = "idle"

NextPool ==
    \/ PoolStart
    \/ \E k \in 1..N : SubFetchDone(k)
    \/ \E k \in 1..N : LastFetchDone(k)
    \/ \E k \in 1..N : RunnerResume(k)
    \/ PoolResolve


(***************************************************************************)
(* Strings and conversions.                                                *)
(***************************************************************************)
Bool(b) == [t |-> "boolean", b |-> b]
Empty == Str(<<>>)

DigitChar == <<"0", "1", "2", "3", "4", "5", "6", "7", "8", "9">>

RECURSIVE Digits(_)
Digits(n) == IF n < 10 THEN <<DigitChar[n + 1]>> ELSE Digits(n \div 10) \o <<DigitChar[(n % 10) + 1]>>

RECURSIVE TrimLeft(_)
TrimLeft(s) == IF s # <<>> /\ Head(s) = " " THEN TrimLeft(Tail(s)) ELSE s

RECURSIVE TrimRight(_)
TrimRight(s) ==
    IF s # <<>> /\ s[Len(s)] = " " THEN TrimRight(SubSeq(s, 1, Len(s) - 1)) ELSE s

\* String.prototype.trim on the characters of a string
Trim(s) == TrimRight(TrimLeft(s))

RECURSIVE JoinChars(_, _)
\* the characters of strs[1] sep strs[2] sep ...
JoinChars(strs, sep) ==
    IF strs = <<>> THEN <<>>
    ELSE IF Len(strs) = 1 THEN strs[1]
    ELSE strs[1] \o sep \o JoinChars(Tail(strs), sep)

RECURSIVE ToStr(_)
\* String(v): the characters of the string a value converts to
ToStr(v) ==
    CASE v.t = "string" -> v.s
      [] v.t = "number" -> Digits(v.n)
      [] v.t = "boolean" -> IF v.b THEN <<"t", "r", "u", "e">> ELSE <<"f", "a", "l", "s", "e">>
      [] v.t = "undefined" -> <<"u", "n", "d", "e", "f", "i", "n", "e", "d">>
      [] v.t = "null" -> <<"n", "u", "l", "l">>
      [] v.t = "array" ->
           JoinChars([j \in 1..Len(v.a) |->
                        IF v.a[j].t \in {"undefined", "null"} THEN <<>> ELSE ToStr(v.a[j])],
                     <<",">>)
      [] OTHER -> <<"[object Object]">>

\* Array.prototype.join: null and undefined elements give the empty string
Join(vals, sep) ==
    Str(JoinChars([j \in 1..Len(vals) |->
                     IF vals[j].t \in {"undefined", "null"} THEN <<>> ELSE ToStr(vals[j])],
                  sep))

RECURSIVE FilterBoolean(_)
\* vals.filter(Boolean)
FilterBoolean(vals) ==
    IF vals = <<>> THEN <<>>
    ELSE (IF Truthy(Head(vals)) THEN <<Head(vals)>> ELSE <<>>) \o FilterBoolean(Tail(vals))

RECURSIVE Distinct(_)
\* Array.from(new Set(vals)): the first occurrence of every value, in order
Distinct(vals) ==
    IF vals = <<>> THEN <<>>
    ELSE LET front == Distinct(SubSeq(vals, 1, Len(vals) - 1))
             last == vals[Len(vals)]
         IN IF \E j \in 1..Len(front) : front[j] = last THEN front ELSE Append(front, last)

(***************************************************************************)
(* trackingForLineItem({ order, shipments }, lineItemId)                   *)
(***************************************************************************)
\* (v || []).map(...): a truthy value that is no array has no map
MapThrows(v) == Truthy(v) /\ ~IsArray(v)

ArrayOf(v) == IF Truthy(v) THEN v.a ELSE <<>>

\* const t = s.tracking_number || s.tracking || '';
ShipTracking(s) == Or(Or(Prop(s, "tracking_number"), Prop(s, "tracking")), Empty)

\* const ids = (s.line_item_ids || []).map(String);
IdsOf(s) == LET a == ArrayOf(Prop(s, "line_item_ids")) IN { ToStr(a[j]) : j \in 1..Len(a) }

\* const sLineItems = (s.line_items || []).map((x) => String(x.id || x));
EmbeddedIdsOf(s) ==
    LET a == ArrayOf(Prop(s, "line_items"))
    IN { ToStr(Or(Prop(a[j], "id"), a[j])) : j \in 1..Len(a) }

\* the two maps throw on a value with no map and on a null embedded line item
RefsThrow(s) ==
    \/ MapThrows(Prop(s, "line_item_ids"))
    \/ MapThrows(Prop(s, "line_items"))
    \/ LET a == ArrayOf(Prop(s, "line_items")) IN \E j \in 1..Len(a) : Throws(a[j])

\* ids.includes(String(lineItemId)) || sLineItems.includes(String(lineItemId))
IncludesIdBad(s, id) == ToStr(id) \in IdsOf(s)
IncludesId(s, id) == ToStr(id) \in IdsOf(s) \/ ToStr(id) \in EmbeddedIdsOf(s)

TrackingThrows(shipments) ==
    \E j \in 1..Len(shipments) :
       \/ Throws(shipments[j])
       \/ Truthy(ShipTracking(shipments[j])) /\ RefsThrow(shipments[j])

\* if (found.size > 0) return Array.from(found).join('; ');
FoundNonEmptyBad(found, shipments, id) ==
    found # <<>> \/ \E j \in 1..Len(shipments) : IncludesId(shipments[j], id)
FoundNonEmpty(found, shipments, id) == found # <<>>

TrackingForLineItem(shipments, lineItemId) ==
    IF Len(shipments) = 0 THEN Empty
    ELSE IF TrackingThrows(shipments) THEN Thrown
    ELSE LET all == [j \in 1..Len(shipments) |-> ShipTracking(shipments[j])]
             refd == { j \in 1..Len(shipments) :
                         Truthy(all[j]) /\ IncludesId(shipments[j], lineItemId) }
             RECURSIVE Pick(_)
             Pick(j) == IF j > Len(shipments) THEN <<>>
                        ELSE (IF j \in refd THEN <<all[j]>> ELSE <<>>) \o Pick(j + 1)
             found == Distinct(Pick(1))
             any == FilterBoolean(all)
         IN IF FoundNonEmpty(found, shipments, lineItemId) THEN Join(found, <<";", " ">>)
            ELSE IF Len(any) > 0 THEN Join(Distinct(any), <<";", " ">>)
            ELSE Empty

(***************************************************************************)
(* joinNonEmpty and composeAddressBlob                                     *)
(***************************************************************************)
\* v && w
And(v, w) == IF Truthy(v) THEN w ELSE v

\* p !== undefined && p !== null && String(p).trim() !== ''
NonBlank(v) == v.t \notin {"undefined", "null"} /\ Trim(ToStr(v)) # <<>>

RECURSIVE FilterNonBlank(_)
FilterNonBlank(vals) ==
    IF vals = <<>> THEN <<>>
    ELSE (IF NonBlank(Head(vals)) THEN <<Head(vals)>> ELSE <<>>) \o FilterNonBlank(Tail(vals))

\* function joinNonEmpty(parts, sep = ' | ')
JoinNonEmpty(parts, sep) == Join(FilterNonBlank(parts), sep)

RECURSIVE Get(_, _)
\* the get of composeAddressBlob and the pick of the row assembly: the first
\* of the keys whose value is not blank, or ''
Get(obj, keys) ==
    IF keys = <<>> \/ ~Truthy(obj) THEN Empty
    ELSE IF NonBlank(Prop(obj, Head(keys))) THEN Prop(obj, Head(keys))
    ELSE Get(obj, Tail(keys))

\* (v || '').trim(): only a string has trim
TrimThrows(v) == Truthy(v) /\ v.t # "string"
TrimOf(v) == IF v.t = "string" THEN Trim(v.s) ELSE <<>>

FirstKeys == <<"first_name", "first", "firstName", "firstname">>
LastKeys == <<"last_name", "last", "lastName", "lastname">>

\* let contactFallback: the order's contact for the role, then the other one
ContactFallback(order, role) ==
    IF role = "billing"
    THEN Or(Or(Prop(order, "billing_contact"), Prop(order, "shipping_contact")), Obj(<<>>))
    ELSE Or(Or(Prop(order, "shipping_contact"), Prop(order, "billing_contact")), Obj(<<>>))

\* const contact = (addr && (addr.first_name || ... || addr.phone)) ? addr : contactFallback;
Contact(addr, order, role) ==
    IF Truthy(And(addr, Or(Or(Or(Prop(addr, "first_name"), Prop(addr, "last_name")),
                              Prop(addr, "email")), Prop(addr, "phone"))))
    THEN addr ELSE ContactFallback(order, role)

\* a variant that looks at the address of the role alone
OrderAddrOwnRole(order, role) ==
    IF role = "billing"
    THEN Or(Prop(order, "billing_address"), Obj(<<>>))
    ELSE Or(Prop(order, "shipping_address"), Obj(<<>>))

\* const orderAddr: the order's address for the role, then the other one
OrderAddr(order, role) ==
    IF role = "billing"
    THEN Or(Or(Prop(order, "billing_address"), Prop(order, "shipping_address")), Obj(<<>>))
    ELSE Or(Or(Prop(order, "shipping_address"), Prop(order, "billing_address")), Obj(<<>>))

\* const shipmentAddr = shipment ? (shipment.shipping_address || ... || {}) : {};
ShipmentAddr(shipment) ==
    IF Truthy(shipment)
    THEN Or(Or(Or(Or(Prop(shipment, "shipping_address"), Prop(shipment, "address")),
                  Prop(shipment, "to_address")), Prop(shipment, "recipient")), Obj(<<>>))
    ELSE Obj(<<>>)

BlobFirst(addr, order, role) == Or(Get(addr, FirstKeys), Get(Contact(addr, order, role), FirstKeys))
BlobLast(addr, order, role) == Or(Get(addr, LastKeys), Get(Contact(addr, order, role), LastKeys))

\* composeAddressBlob throws on an order that is null or undefined and on a
\* first or last name that is no string
BlobThrows(addr, order, role) ==
    \/ Throws(order)
    \/ /\ Truthy(Or(BlobFirst(addr, order, role), BlobLast(addr, order, role)))
       /\ \/ TrimThrows(BlobFirst(addr, order, role))
          \/ TrimThrows(BlobLast(addr, order, role))

\* const name, let finalName
BlobName(addr, order, role, shipment) ==
    LET first == BlobFirst(addr, order, role)
        last == BlobLast(addr, order, role)
        name == JoinNonEmpty(<< IF Truthy(Or(first, last))
                                THEN Str(Trim(TrimOf(first) \o <<" ">> \o TrimOf(last)))
                                ELSE Empty >>, <<" ", "|", " ">>)
        oName == Get(order, <<"customer_name", "customer", "customer_full_name",
                              "customerDisplayName">>)
        sName == Get(ShipmentAddr(shipment),
                     <<"name", "recipient_name", "to_name", "recipient", "full_name">>)
        named == IF ~Truthy(name) /\ Truthy(oName) THEN Str(Trim(ToStr(oName))) ELSE name
    IN IF ~Truthy(named) /\ Truthy(shipment) /\ Truthy(sName)
       THEN Str(Trim(ToStr(sName))) ELSE named

BlobCompany(addr, order, role, shipment) ==
    Or(Or(Get(addr, <<"company", "business", "org">>), Get(OrderAddr(order, role), <<"company">>)),
       Get(ShipmentAddr(shipment), <<"company">>))

BlobAddress1(addr, order, role, shipment) ==
    Or(Or(Or(Get(addr, <<"address1", "first_address", "firstAddress", "address", "street1">>),
             Get(OrderAddr(order, role), <<"first_address", "firstAddress", "address1", "street1">>)),
          Get(ShipmentAddr(shipment), <<"address1", "first_address", "address", "street1">>)),
       Empty)

BlobAddress2(addr, order, role, shipment) ==
    Or(Or(Or(Get(addr, <<"address2", "second_address", "secondAddress", "address_line_2",
                         "street2">>),
             Get(OrderAddr(order, role), <<"second_address", "secondAddress", "address2">>)),
          Get(ShipmentAddr(shipment), <<"address2", "second_address">>)),
       Empty)

BlobCity(addr, order, role, shipment) ==
    Or(Or(Or(Get(addr, <<"city", "town">>), Get(OrderAddr(order, role), <<"city">>)),
          Get(ShipmentAddr(shipment), <<"city">>)), Empty)

BlobState(addr, order, role, shipment) ==
    Or(Or(Or(Get(addr, <<"state", "province", "region">>), Get(OrderAddr(order, role), <<"state">>)),
          Get(ShipmentAddr(shipment), <<"state">>)), Empty)

BlobZip(addr, order, role, shipment) ==
    Or(Or(Or(Or(Get(addr, <<"zip", "postcode", "postal_code">>), Get(addr, <<"postal">>)),
             Get(OrderAddr(order, role), <<"zip", "postcode", "postal_code">>)),
          Get(ShipmentAddr(shipment), <<"zip", "postal_code">>)), Empty)

BlobCountry(addr, order, role, shipment) ==
    Or(Or(Or(Get(addr, <<"country", "country_name">>), Get(OrderAddr(order, role), <<"country">>)),
          Get(ShipmentAddr(shipment), <<"country">>)), Empty)

BlobEmail(addr, order, role, shipment) ==
    Or(Or(Or(Or(Or(Get(addr, <<"email", "contact_email">>),
                   Get(Contact(addr, order, role), <<"email">>)),
                Get(order, <<"customer_email">>)),
             Get(order, <<"customer">>)),
          Get(ShipmentAddr(shipment), <<"email">>)), Empty)

BlobPhone(addr, order, role) ==
    Or(Or(Or(Get(addr, <<"phone", "telephone", "contact_phone">>),
             Get(Contact(addr, order, role), <<"phone">>)),
          Get(order, <<"customer_phone">>)), Empty)

\* the segments of the blob, in order, empty ones included
BlobSegments(addr, order, role, shipment) ==
    << BlobName(addr, order, role, shipment),
       BlobCompany(addr, order, role, shipment),
       JoinNonEmpty(<<BlobAddress1(addr, order, role, shipment),
                      BlobAddress2(addr, order, role, shipment)>>, <<" ">>),
       JoinNonEmpty(FilterBoolean(
           << BlobCity(addr, order, role, shipment),
              Str(Trim(Join(FilterBoolean(<<BlobState(addr, order, role, shipment),
                                            BlobZip(addr, order, role, shipment)>>),
                            <<" ">>).s)) >>), <<",", " ">>),
       BlobCountry(addr, order, role, shipment),
       BlobEmail(addr, order, role, shipment),
       BlobPhone(addr, order, role) >>

\* a variant that pushes every segment
BlobPartsAll(segments) == segments

\* const parts = []; if (finalName) parts.push(finalName); ... if (phone) parts.push(phone);
BlobParts(segments) == FilterBoolean(segments)

\* function composeAddressBlob(addr = {}, order = {}, extras = {}), with
\* extras.role and the shipment extras names (null when it names none)
ComposeAddressBlob(addr, order, role, shipment) ==
    IF BlobThrows(addr, order, role) THEN Thrown
    ELSE Join(BlobParts(BlobSegments(addr, order, role, shipment)), <<" ", "|", " ">>)

(***************************************************************************)
(* formatProductOptions and formatProductPersonalization                   *)
(***************************************************************************)
\* JSON.stringify(o): the text of a number or a string, a token for the rest
Stringify(o) ==
    CASE o.t = "number" -> Str(Digits(o.n))
      [] o.t = "string" -> Str(<<"\"">> \o o.s \o <<"\"">>)
      [] o.t = "boolean" -> Str(ToStr(o))
      [] OTHER -> Str(<<"{json}">>)

\* opts.map(o => ...) of formatProductOptions
OptionText(o) ==
    IF o.t \in {"undefined", "null"} THEN Empty
    ELSE IF o.t = "string" THEN o
    ELSE IF Truthy(Or(Prop(o, "option_name"), Prop(o, "sub_option_name")))
    THEN Join(FilterBoolean(<< Or(Or(Prop(o, "option_name"), Prop(o, "name")), Empty),
                               Or(Or(Or(Prop(o, "sub_option_name"), Prop(o, "value")),
                                     Prop(o, "sub")), Empty) >>), <<":", " ">>)
    ELSE Stringify(o)

\* function formatProductOptions(opts)
FormatProductOptions(opts) ==
    IF ~Truthy(opts) THEN Empty
    ELSE IF opts.t = "string" THEN opts
    ELSE IF IsArray(opts)
    THEN Join(FilterBoolean([j \in 1..Len(opts.a) |-> OptionText(opts.a[j])]), <<";", " ">>)
    ELSE IF opts.t = "object"
    THEN Join([j \in 1..Len(opts.o) |->
                 Str(<<opts.o[j][1]>> \o <<":", " ">> \o ToStr(opts.o[j][2]))], <<";", " ">>)
    ELSE Str(ToStr(opts))

\* const arr = Array.isArray(pp) ? pp : (pp.personalizations || pp.product_personalizations || []);
PersonalizationItems(pp) ==
    LET arr == IF IsArray(pp) THEN pp
               ELSE Or(Or(Prop(pp, "personalizations"), Prop(pp, "product_personalizations")),
                       Arr(<<>>))
    IN IF IsArray(arr) THEN arr.a ELSE <<>>

\* item.attributes.map(a => ...): a.key of a null or undefined attribute throws
AttributesThrow(item) ==
    /\ Truthy(item)
    /\ IsArray(Prop(item, "attributes"))
    /\ \E j \in 1..Len(Prop(item, "attributes").a) : Throws(Prop(item, "attributes").a[j])

AttributeText(a) ==
    IF a.t = "string" THEN a
    ELSE Join(FilterBoolean(<< Or(Or(Prop(a, "key"), Prop(a, "name")), Empty),
                               Or(Or(Prop(a, "value"), Prop(a, "val")), Empty) >>), <<":", " ">>)

\* arr.map(item => ...) of formatProductPersonalization
PersonalizationText(item) ==
    IF ~Truthy(item) THEN Empty
    ELSE LET title == Or(Or(Prop(item, "title"), Prop(item, "name")), Empty)
             at == Prop(item, "attributes")
             attrs == IF IsArray(at)
                      THEN Join(FilterBoolean([j \in 1..Len(at.a) |-> AttributeText(at.a[j])]),
                                <<",", " ">>)
                      ELSE Empty
             pm == Prop(item, "price_modifier")
             pt == Or(Or(Prop(pm, "modifier_type"), Prop(pm, "type")), Empty)
             amt == Or(Or(Prop(pm, "amount"), Prop(pm, "value")), Empty)
             price == IF Truthy(pm) /\ Truthy(Or(pt, amt))
                      THEN Str(ToStr(pt) \o ToStr(amt)) ELSE Empty
         IN Join(FilterBoolean(<< title,
                                  IF Truthy(attrs) THEN Str(<<"Attributes: ">> \o attrs.s) ELSE Empty,
                                  IF Truthy(price) THEN Str(<<"Price: ">> \o price.s) ELSE Empty >>),
                 <<" ", "|", " ">>)

PersonalizationThrows(pp) ==
    /\ Truthy(pp)
    /\ pp.t # "string"
    /\ \E j \in 1..Len(PersonalizationItems(pp)) : AttributesThrow(PersonalizationItems(pp)[j])

\* function formatProductPersonalization(pp)
FormatProductPersonalization(pp) ==
    IF ~Truthy(pp) THEN Empty
    ELSE IF pp.t = "string" THEN pp
    ELSE IF PersonalizationThrows(pp) THEN Thrown
    ELSE LET arr == PersonalizationItems(pp)
         IN Join(FilterBoolean([j \in 1..Len(arr) |-> PersonalizationText(arr[j])]),
                 <<" ", ";", " ">>)

(***************************************************************************)
(* POST /api/run: the row of one line item (detailed mode) and of one      *)
(* order (summary mode)                                                    *)
(***************************************************************************)
COLUMNS ==
    << "Order #", "Placed", "Order Status", "Line Item ID", "Tracking #",
       "Shipping Landded Cost", "Ship Method", "Ship Date",
       "Product Personalization", "Quantity", "Product Name", "Product Options",
       "Billing Info", "Shipping Info" >>

STRUCTURED_COLUMNS ==
    << "Billing Name", "Billing Company", "Billing Address1", "Billing Address2", "Billing City",
       "Billing State", "Billing Zip", "Billing Country", "Billing Email", "Billing Phone",
       "Shipping Name", "Shipping Company", "Shipping Address1", "Shipping Address2",
       "Shipping City", "Shipping State", "Shipping Zip", "Shipping Country", "Shipping Email",
       "Shipping Phone" >>

ALL_COLUMNS == COLUMNS \o STRUCTURED_COLUMNS

\* the representative shipment: 0 for none, -1 when the scan throws
RECURSIVE RepScan(_, _, _)
RepScan(shipments, id, j) ==
    IF j > Len(shipments) THEN 0
    ELSE IF Throws(shipments[j]) \/ RefsThrow(shipments[j]) THEN 0 - 1
    ELSE IF IncludesId(shipments[j], id) THEN j
    ELSE RepScan(shipments, id, j + 1)

\* if (!representative && shipments.length) representative = shipments[0];
FallbackRepBad(shipments) == Len(shipments)
FallbackRep(shipments) == IF Len(shipments) > 0 THEN 1 ELSE 0

\* a variant that always takes the first shipment
RepIndexFirst(shipments, id) == FallbackRep(shipments)

RepIndex(shipments, id) ==
    LET j == RepScan(shipments, id, 1)
    IN IF j = 0 THEN FallbackRep(shipments) ELSE j

Representative(shipments, id) ==
    IF RepIndex(shipments, id) > 0 THEN shipments[RepIndex(shipments, id)] ELSE Null

\* const shippingLanded = (representative && (representative.landed_cost || representative.shipping_cost)) || order.shipping_total || '';
ShippingLanded(rep, order) ==
    Or(Or(And(rep, Or(Prop(rep, "landed_cost"), Prop(rep, "shipping_cost"))),
          Prop(order, "shipping_total")), Empty)

\* const shipMethod = (representative && (representative.shipping_method || order.shipping_method)) || '';
ShipMethod(rep, order) ==
    Or(And(rep, Or(Prop(rep, "shipping_method"), Prop(order, "shipping_method"))), Empty)

\* const shipDate = (representative && (representative.ship_date || representative.shipped_at)) || '';
ShipDateBad(rep) == And(rep, Or(Prop(rep, "ship_date"), Prop(rep, "shipped_at")))
ShipDate(rep) == Or(And(rep, Or(Prop(rep, "ship_date"), Prop(rep, "shipped_at"))), Empty)

\* Object.assign({}, order.billing || {}, order.billing_address || {}, order.billing_contact || {})
Merged(order, role) ==
    ObjAssign(ObjAssign(ObjAssign(Obj(<<>>), Or(Prop(order, role), Obj(<<>>))),
                        Or(Prop(order, role \o "_address"), Obj(<<>>))),
              Or(Prop(order, role \o "_contact"), Obj(<<>>)))

\* the structured name of the detailed row
StructuredName(merged, order) ==
    LET first == Get(merged, FirstKeys)
        last == Get(merged, LastKeys)
    IN IF Truthy(Or(first, last))
       THEN Str(Trim(ToStr(Or(first, Empty)) \o <<" ">> \o ToStr(Or(last, Empty))))
       ELSE Or(Get(order, <<"customer_name", "customer", "username">>), Empty)

\* the 10 structured fields of one role in the detailed row
Structured(merged, order) ==
    << StructuredName(merged, order),
       Get(merged, <<"company", "business", "org">>),
       Get(merged, <<"first_address", "address1", "firstAddress", "address", "street1">>),
       Get(merged, <<"second_address", "address2", "secondAddress", "address_line_2", "street2">>),
       Get(merged, <<"city", "town">>),
       Get(merged, <<"state", "province", "region">>),
       Get(merged, <<"zip", "postcode", "postal_code">>),
       Get(merged, <<"country", "country_name">>),
       Or(Get(merged, <<"email", "contact_email">>), Get(order, <<"customer_email", "customer">>)),
       Or(Get(merged, <<"phone", "telephone", "contact_phone">>), Get(order, <<"customer_phone">>)) >>

\* line_items.forEach((li) => { ... rows.push([...]) }) for one line item:
\* whether it throws, the representative it picks and the row it pushes
DetailedRow(order, li, shipments) ==
    IF Throws(li) \/ TrackingForLineItem(shipments, Prop(li, "id")) = Thrown
       \/ RepScan(shipments, Prop(li, "id"), 1) < 0
    THEN [threw |-> TRUE]
    ELSE LET id == Prop(li, "id")
             rep == Representative(shipments, id)
             pp == FormatProductPersonalization(
                       Or(Or(Or(Prop(li, "product_personalizations"), Prop(li, "personalizations")),
                             Prop(li, "personalization")), Prop(li, "product_personalization")))
             billingInfo == ComposeAddressBlob(Merged(order, "billing"), order, "billing", Null)
             shippingInfo == ComposeAddressBlob(Merged(order, "shipping"), order, "shipping", rep)
         IN IF pp = Thrown \/ billingInfo = Thrown \/ shippingInfo = Thrown
            THEN [threw |-> TRUE]
            ELSE [threw |-> FALSE,
                  rep |-> RepIndex(shipments, id),
                  row |-> << Str(ToStr(Or(Or(Prop(order, "order_id"), Prop(order, "id")), Empty))),
                             Or(Or(Prop(order, "placed_at"), Prop(order, "created_at")), Empty),
                             Or(Prop(order, "status"), Empty),
                             Str(ToStr(Or(id, Empty))),
                             TrackingForLineItem(shipments, id),
                             ShippingLanded(rep, order),
                             ShipMethod(rep, order),
                             ShipDate(rep),
                             pp,
                             Str(ToStr(Or(Prop(li, "quantity"), Empty))),
                             Or(Or(Prop(li, "name"), Prop(li, "product_name")), Empty),
                             FormatProductOptions(Or(Or(Prop(li, "options_text"),
                                                        Prop(li, "product_options")),
                                                     Prop(li, "options"))),
                             billingInfo,
                             shippingInfo >>
                          \o Structured(Merged(order, "billing"), order)
                          \o Structured(Merged(order, "shipping"), order)]

\* const structured = [billingName, '', ..., email, '', shippingName, '', ..., email, '']
SummaryStructured(merged, order) ==
    << Or(Or(Get(merged, <<"first_name", "first">>), Get(order, <<"customer", "username">>)), Empty),
       Empty, Empty, Empty, Empty, Empty, Empty, Empty,
       Or(Get(merged, <<"email", "contact_email">>), Get(order, <<"customer_email", "customer">>)),
       Empty >>

\* orders.slice(0).map((order) => ...) for one order
SummaryRow(order) ==
    LET billingInfo == ComposeAddressBlob(
                           Or(Or(Prop(order, "billing"), Prop(order, "billing_address")), Obj(<<>>)),
                           order, "auto", Null)
        shippingInfo == ComposeAddressBlob(
                            Or(Or(Prop(order, "shipping"), Prop(order, "shipping_address")), Obj(<<>>)),
                            order, "auto", Null)
    IN IF Throws(order) \/ billingInfo = Thrown \/ shippingInfo = Thrown
       THEN [threw |-> TRUE]
       ELSE [threw |-> FALSE,
             row |-> << Str(ToStr(Or(Or(Prop(order, "order_id"), Prop(order, "id")), Empty))),
                        Or(Or(Prop(order, "placed_at"), Prop(order, "created_at")), Empty),
                        Or(Prop(order, "status"), Empty),
                        Empty,
                        Empty,
                        Or(Prop(order, "shipping_total"), Empty),
                        Or(Prop(order, "shipping_method"), Empty),
                        Empty, Empty, Empty, Empty, Empty,
                        billingInfo,
                        shippingInfo >>
                     \o SummaryStructured(Merged(order, "billing"), order)
                     \o SummaryStructured(Merged(order, "shipping"), order)]

(***************************************************************************)
(* The inputs of the reconciliation.                                       *)
(***************************************************************************)
ShipmentShapes ==
    { Obj(<< <<"tracking_number", S("A")>>, <<"line_item_ids", Arr(<<Num(1)>>)>> >>),
      Obj(<< <<"tracking_number", S("B")>>, <<"line_item_ids", Arr(<<S("2")>>)>>,
             <<"shipping_method", S("U")>>, <<"ship_date", S("d")>>, <<"landed_cost", Num(5)>> >>),
      Obj(<< <<"tracking", S("A")>>, <<"line_items", Arr(<<Obj(<< <<"id", Num(2)>> >>)>>)>>,
             <<"shipped_at", S("e")>> >>),
      Obj(<< <<"tracking_number", S("C")>>, <<"shipping_cost", Num(7)>> >>),
      Obj(<< <<"line_item_ids", Arr(<<Num(1), Num(2)>>)>>, <<"shipping_method", S("F")>> >>),
      Obj(<< <<"tracking_number", Empty>>, <<"tracking", S("B")>>,
             <<"line_items", Arr(<<Num(1)>>)>> >>),
      Obj(<< <<"tracking_number", S("D")>>, <<"line_items", Arr(<<Null>>)>> >>),
      Obj(<< <<"tracking_number", S("D")>>, <<"line_item_ids", S("1")>> >>) }

RECURSIVE SeqsUpTo(_, _)
\* the sequences of at most n elements of set
SeqsUpTo(set, n) ==
    IF n = 0 THEN { <<>> }
    ELSE LET shorter == SeqsUpTo(set, n - 1)
         IN shorter \cup { Append(q, x) : q \in { r \in shorter : Len(r) = n - 1 }, x \in set }

PlainOrder == Obj(<< <<"id", Num(7)>>, <<"status", S("new")>> >>)
ShippedOrder ==
    Obj(<< <<"order_id", Num(8)>>, <<"shipping_total", Num(9)>>, <<"shipping_method", S("G")>>,
           <<"placed_at", S("p")>> >>)

PlainLineItems == { Obj(<< <<"id", Num(1)>> >>), Obj(<< <<"id", S("2")>>, <<"quantity", Num(3)>> >>) }

\* line items of many shapes: options and personalizations as strings,
\* arrays and objects, with null entries
RichLineItems ==
    { Obj(<< <<"id", Num(1)>>, <<"quantity", Num(2)>>, <<"name", S("W")>>,
             <<"options_text", S("o")>>, <<"personalizations", S("p")>> >>),
      Obj(<< <<"id", Num(1)>>, <<"product_name", Num(5)>>,
             <<"product_options",
               Arr(<< Obj(<< <<"option_name", S("S")>>, <<"sub_option_name", S("L")>> >>),
                      S("x"), Null, Obj(<< <<"k", Num(1)>> >>) >>)>> >>),
      Obj(<< <<"id", Num(1)>>, <<"options", Obj(<< <<"color", S("r")>>, <<"size", Num(3)>> >>)>>,
             <<"product_personalization", Num(5)>> >>),
      Obj(<< <<"id", Num(1)>>,
             <<"product_personalizations",
               Arr(<< Obj(<< <<"title", S("T")>>,
                             <<"attributes", Arr(<< S("a"), Obj(<< <<"key", S("k")>>,
                                                                  <<"value", S("v")>> >>) >>)>>,
                             <<"price_modifier", Obj(<< <<"modifier_type", S("+")>>,
                                                        <<"amount", Num(2)>> >>)>> >>),
                      Null >>)>> >>),
      Obj(<< <<"id", Num(1)>>,
             <<"personalization",
               Obj(<< <<"personalizations",
                        Arr(<< Obj(<< <<"name", S("N")>>, <<"attributes", Arr(<<Null>>)>> >>) >>)>> >>)>> >>),
      Obj(<< <<"quantity", Num(0)>>, <<"options", Bool(TRUE)>> >>),
      Null }

Address ==
    Obj(<< <<"first_address", S("a")>>, <<"city", S("c")>>, <<"state", S("s")>>,
           <<"zip", Num(10001)>>, <<"country", S("U")>> >>)

\* orders whose contact and address objects have many shapes and types
RichOrders ==
    { PlainOrder,
      Obj(<< <<"id", Num(3)>>,
             <<"billing_contact", Obj(<< <<"first_name", S("J")>>, <<"last_name", S("D")>>,
                                         <<"email", S("e")>> >>)>>,
             <<"billing_address", Address>> >>),
      Obj(<< <<"id", Num(3)>>, <<"billing_contact", Obj(<< <<"first_name", Num(5)>> >>)>> >>),
      Obj(<< <<"id", Num(3)>>,
             <<"shipping_contact", Obj(<< <<"first_name", S(" ")>>, <<"last_name", S("D")>>,
                                          <<"phone", Num(1)>> >>)>>,
             <<"shipping_address", Address>> >>),
      Obj(<< <<"id", Num(3)>>, <<"shipping", Obj(<< <<"last_name", Arr(<<S("D")>>)>> >>)>>,
             <<"customer", S("m")>> >>),
      Obj(<< <<"id", Num(3)>>, <<"customer_name", Num(4)>>, <<"customer_email", Null>>,
             <<"billing", S("b")>>, <<"status", Num(0)>>, <<"created_at", S("t")>> >>),
      Obj(<< <<"order_id", S("9")>>, <<"billing_address", Address>>,
             <<"shipping_contact", Obj(<< <<"email", S("e")>> >>)>>,
             <<"customer_phone", S("7")>> >>) }

AddressedShipment ==
    Obj(<< <<"tracking_number", S("A")>>,
           <<"to_address", Obj(<< <<"name", S("R")>>, <<"city", S("k")>>, <<"zip", S("9")>> >>)>> >>)

\* the inputs: every shipment list with a plain line item and order, every
\* line item shape, every order shape
InitRow ==
    /\ \/ /\ rShips \in SeqsUpTo(ShipmentShapes, MaxShipments)
          /\ rLi \in PlainLineItems
          /\ rOrder \in {PlainOrder, ShippedOrder}
       \/ /\ rShips \in { <<>>, <<AddressedShipment>> }
          /\ rLi \in RichLineItems
          /\ rOrder = PlainOrder
       \/ /\ rShips \in { <<>>, <<AddressedShipment>> }
          /\ rLi \in PlainLineItems
          /\ rOrder \in RichOrders \cup {Null}
    /\ rpc = "input"
    /\ rOut = Undef

RowIdle ==
    /\ rOrder = Undef
    /\ rLi = Undef
    /\ rShips = <<>>
    /\ rpc = "idle"
    /\ rOut = Undef

\* const tracking = trackingForLineItem({ order, shipments }, li.id);
TrackingCall ==
    /\ rpc = "input"
    /\ rpc' = "tracking"
    /\ ~Throws(rLi)
    /\ rOut' = TrackingForLineItem(rShips, Prop(rLi, "id"))
    /\ UNCHANGED <<rOrder, rLi, rShips>>
    /\ UNCHANGED <<fetchVars, poolVars, runVars, blobVars>>

\* the body of line_items.forEach for this line item
DetailedRowCall ==
    /\ rpc = "input"
    /\ ~Throws(rOrder)
    /\ rpc' = "detailed"
    /\ rOut' = DetailedRow(rOrder, rLi, rShips)
    /\ UNCHANGED <<rOrder, rLi, rShips>>
    /\ UNCHANGED <<fetchVars, poolVars, runVars, blobVars>>

\* the body of orders.slice(0).map for this order
SummaryRowCall ==
    /\ rpc = "input"
    /\ rpc' = "summary"
    /\ rOut' = SummaryRow(rOrder)
    /\ UNCHANGED <<rOrder, rLi, rShips>>
    /\ UNCHANGED <<fetchVars, poolVars, runVars, blobVars>>

NextRow == TrackingCall \/ DetailedRowCall \/ SummaryRowCall

(***************************************************************************)
(* POST /api/run                                                           *)
(***************************************************************************)
NoResponse == [status |-> 0]
Absent == "(absent)"

\* the keys of BRIGHTSITES_STORES, and names every object inherits
ConfiguredStores == {"main", "outlet"}
InheritedNames == {"toString", "constructor"}

\* const store = stores[storeKey]; the lookup also finds inherited properties
StoreFoundBad(storeKey) == TRUE
StoreFound(storeKey) == storeKey \in ConfiguredStores \cup InheritedNames

\* const reportType = body.reportType || 'Needed Excel';
ReportType(body) == IF body.reportType \in {Absent, ""} THEN "Needed Excel" ELSE body.reportType

\* if (!storeKey) return res.status(400)...; if (!store) return res.status(400)...
RunValidate ==
    /\ runpc = "received"
    /\ IF req.storeKey \in {Absent, ""} \/ ~StoreFound(req.storeKey)
       THEN /\ resp' = [status |-> 400]
            /\ runpc' = "responded"
       ELSE /\ runpc' = "fetching"
            /\ UNCHANGED resp
    /\ UNCHANGED <<req, contacted>>
    /\ UNCHANGED <<fetchVars, poolVars, rowVars, blobVars>>

\* const orders = await fetchAllPages('/orders', params, 200, storeOpts): the
\* executor fails on some page, the call rejects and the handler's catch
\* answers 500
RunFetchFails ==
    /\ runpc = "fetching"
    /\ contacted' = TRUE
    /\ resp' = [status |-> 500]
    /\ runpc' = "responded"
    /\ UNCHANGED req
    /\ UNCHANGED <<fetchVars, poolVars, rowVars, blobVars>>

RunKinds == FailKindsOfOrder \cup {"malformed"}

\* the order list is fetched (and the first order's detail for meta.debug)
RunFetchOrders ==
    /\ runpc = "fetching"
    /\ contacted' = TRUE
    /\ \E n \in 0..MaxRunOrders : \E bad \in 0..n : \E kind \in RunKinds :
         /\ orders' = [k \in 1..n |-> IF k = bad THEN OrderOf(k, kind) ELSE Snapshot(k)]
         /\ failing' = [k \in 1..n |-> IF k = bad THEN kind ELSE "none"]
         /\ pending' = [k \in 1..n |-> 0]
         /\ results' = [k \in 1..n |-> Hole]
    /\ runpc' = "fetched"
    /\ UNCHANGED <<req, resp>>
    /\ UNCHANGED <<nextIdx, finished, alive, ppc>>
    /\ UNCHANGED <<fetchVars, rowVars, blobVars>>

\* if (reportType === 'Needed Excel') { const enriched = await promisePool(...)
RunEnrich ==
    /\ runpc = "fetched"
    /\ ReportType(req) = "Needed Excel"
    /\ runpc' = "enriching"
    /\ ppc' = "new"
    /\ UNCHANGED <<req, resp, contacted>>
    /\ UNCHANGED <<orders, failing, nextIdx, pending, finished, alive, results>>
    /\ UNCHANGED <<fetchVars, rowVars, blobVars>>

\* enriched.forEach(({ order, line_items = [], shipments = [] }) => {
\* an error marker has no line_items
EntryLineItems(entry) == IF "line_items" \in DOMAIN entry THEN entry.line_items ELSE <<>>
EntryShipments(entry) == IF "shipments" \in DOMAIN entry THEN entry.shipments ELSE <<>>

\* a variant that keeps only the first line item of an entry
EntryRowsFirstOnly(entry) ==
    [j \in 1..(IF Len(EntryLineItems(entry)) > 0 THEN 1 ELSE 0) |->
        DetailedRow(entry.order, EntryLineItems(entry)[j], EntryShipments(entry))]

\* the rows of one entry: one DetailedRow for each of its line items
EntryRows(entry) ==
    [j \in 1..Len(EntryLineItems(entry)) |->
        DetailedRow(entry.order, EntryLineItems(entry)[j], EntryShipments(entry))]

RECURSIVE Flatten(_)
Flatten(ss) == IF ss = <<>> THEN <<>> ELSE Head(ss) \o Flatten(Tail(ss))

\* the response for the rows computed: 500 if one of them threw
Respond(computed, n) ==
    IF \E j \in 1..Len(computed) : computed[j].threw
    THEN [status |-> 500]
    ELSE [status |-> 200,
          columns |-> ALL_COLUMNS,
          rows |-> [j \in 1..Len(computed) |-> computed[j].row],
          meta |-> [orders |-> n, rows |-> Len(computed)]]

\* the rows of the enriched orders, and the response
RunDetailedRows ==
    /\ runpc = "enriching"
    /\ ppc = "resolved"
    /\ resp' = Respond(Flatten([k \in 1..N |-> EntryRows(results[k])]), N)
    /\ runpc' = "responded"
    /\ UNCHANGED <<req, contacted>>
    /\ UNCHANGED <<fetchVars, poolVars, rowVars, blobVars>>

\* } else { rows = orders.slice(0).map((order) => ...) }, and the response
RunSummaryRows ==
    /\ runpc = "fetched"
    /\ ReportType(req) # "Needed Excel"
    /\ resp' = Respond([k \in 1..N |-> SummaryRow(orders[k])], N)
    /\ runpc' = "responded"
    /\ UNCHANGED <<req, contacted>>
    /\ UNCHANGED <<fetchVars, poolVars, rowVars, blobVars>>

InitRun ==
    /\ req \in [storeKey : {Absent, "", "main", "nostore", "toString"},
                 reportType : {Absent, "Needed Excel", "Summary"}]
    /\ runpc = "received"
    /\ resp = NoResponse
    /\ contacted = FALSE

RunIdle ==
    /\ req = [storeKey |-> Absent, reportType |-> Absent]
    /\ runpc = "idle"
    /\ resp = NoResponse
    /\ contacted = FALSE

NextRun ==
    \/ RunValidate
    \/ RunFetchFails
    \/ RunFetchOrders
    \/ RunEnrich
    \/ PoolStart
    \/ \E k \in 1..N : SubFetchDone(k)
    \/ \E k \in 1..N : LastFetchDone(k)
    \/ \E k \in 1..N : RunnerResume(k)
    \/ PoolResolve
    \/ RunDetailedRows
    \/ RunSummaryRows

(***************************************************************************)
(* The composeAddressBlob calls of the row assembly.                       *)
(***************************************************************************)
\* the fields an order may carry under billing, billing_address and
\* shipping_address; every source has values of its own
BillingPool ==
    << <<"first_name", Str(<<"J", "o">>)>>, <<"zip", Str(<<"1", "0", "0", "0", "1">>)>>,
       <<"city", S(" ")>>, <<"company", S("C")>> >>
BillingAddressPool == << <<"city", S("b")>>, <<"first_address", S("1")>> >>
ShippingAddressPool ==
    << <<"city", S("s")>>, <<"state", S("T")>>, <<"zip", Num(7)>>, <<"second_address", S("2")>> >>

RECURSIVE PickFrom(_, _, _)
\* the pairs of pool whose index is in idx, in the pool's order
PickFrom(pool, idx, j) ==
    IF j > Len(pool) THEN <<>>
    ELSE (IF j \in idx THEN <<pool[j]>> ELSE <<>>) \o PickFrom(pool, idx, j + 1)

\* the objects with at most MaxFields of the pool's fields
ObjectsOf(pool) ==
    { Obj(PickFrom(pool, idx, 1)) :
        idx \in { x \in SUBSET (1..Len(pool)) : Cardinality(x) <= MaxFields } }

\* a property that is absent (undefined) or one of the pool's objects
Optional(key, pool) == { <<>> } \cup { << <<key, o>> >> : o \in ObjectsOf(pool) }

BlobOrders ==
    { Obj(b \o ba \o sa) : b \in Optional("billing", BillingPool),
                           ba \in Optional("billing_address", BillingAddressPool),
                           sa \in Optional("shipping_address", ShippingAddressPool) }

UnaddressedShipment == Obj(<< <<"tracking_number", S("A")>> >>)

BlobCalls == {"billing", "shipping", "summaryBilling", "summaryShipping"}

\* extras.role of the call; the summary rows pass no extras
BlobRole(call) == IF call \in {"billing", "shipping"} THEN call ELSE "auto"

\* the addr argument of the call
BlobAddr(order, call) ==
    CASE call = "billing" -> Merged(order, "billing")
      [] call = "shipping" -> Merged(order, "shipping")
      [] call = "summaryBilling" ->
           Or(Or(Prop(order, "billing"), Prop(order, "billing_address")), Obj(<<>>))
      [] OTHER ->
           Or(Or(Prop(order, "shipping"), Prop(order, "shipping_address")), Obj(<<>>))

\* only the shipping blob of a detailed row is handed the representative
InitBlob ==
    /\ bOrder \in BlobOrders
    /\ bCall \in BlobCalls
    /\ bShip \in IF bCall = "shipping"
                 THEN {Null, AddressedShipment, UnaddressedShipment}
                 ELSE {Null}
    /\ bpc = "input"
    /\ bOut = Undef

BlobIdle ==
    /\ bOrder = Undef
    /\ bCall = "billing"
    /\ bShip = Null
    /\ bpc = "idle"
    /\ bOut = Undef

\* const billingInfo = composeAddressBlob(...); const shippingInfo = composeAddressBlob(...);
ComposeCall ==
    /\ bpc = "input"
    /\ bpc' = "composed"
    /\ bOut' = ComposeAddressBlob(BlobAddr(bOrder, bCall), bOrder, BlobRole(bCall), bShip)
    /\ UNCHANGED <<bOrder, bCall, bShip>>
    /\ UNCHANGED <<fetchVars, poolVars, rowVars, runVars>>

NextBlob == ComposeCall

BlobInit == InitBlob /\ FetchIdle /\ PoolIdle /\ RowIdle /\ RunIdle

SpecBlob == BlobInit /\ [][NextBlob]_vars

RowInit == InitRow /\ FetchIdle /\ PoolIdle /\ RunIdle /\ BlobIdle

SpecRow == RowInit /\ [][NextRow]_vars

RunInit == InitRun /\ FetchIdle /\ PoolIdle /\ RowIdle /\ BlobIdle

SpecRun == RunInit /\ [][NextRun]_vars

NextFetch == AttemptOk \/ AttemptFail \/ SleepDone

FetchInit == InitFetch /\ PoolIdle /\ RowIdle /\ RunIdle /\ BlobIdle

SpecFetch == FetchInit /\ [][NextFetch]_vars

PoolInit == InitPool /\ FetchIdle /\ RowIdle /\ RunIdle /\ BlobIdle

SpecPool == PoolInit /\ [][NextPool]_vars

(***************************************************************************)
(* Claims about the fetcher and the executor.                              *)
(***************************************************************************)
RECURSIVE Concat(_)
Concat(ss) == IF ss = <<>> THEN <<>> ELSE Head(ss) \o Concat(Tail(ss))

Failed(log) == { j \in 1..Len(log) : log[j] \in FailKinds }

\* C1: a call asks for pages 1, 2, 3, ... in order, each with per_page = N,
\* and ends at the first page k that serves fewer than N items: it returns
\* the items of pages 1..k in order and never asks for page k+1; an empty
\* first page gives an empty result with page 1 the only page asked for.
C1_PagesInOrderUntilShortPage ==
    /\ \A j \in 1..Len(reqLog) :
         /\ reqLog[j].per_page = pageSize
         /\ reqLog[j].page = (IF j = 1 THEN 1 ELSE reqLog[j - 1].page)
            \/ (j > 1 /\ reqLog[j].page = reqLog[j - 1].page + 1
                      /\ attempts # <<>> /\ Len(served) >= reqLog[j - 1].page
                      /\ Len(served[reqLog[j - 1].page]) >= pageSize)
    /\ out = Concat(served)
    /\ \A k \in 1..Len(served) :
         /\ \E j \in 1..Len(reqLog) : reqLog[j].page = k
         /\ k < Len(served) => Len(served[k]) >= pageSize
    /\ fpc = "done" =>
         /\ served # <<>>
         /\ Len(served[Len(served)]) < pageSize
         /\ \A j \in 1..Len(reqLog) : reqLog[j].page <= Len(served)
         /\ served[1] = <<>> =>
              /\ out = <<>>
              /\ \A j \in 1..Len(reqLog) : reqLog[j].page = 1
              /\ Failed(attempts) = {} => Len(reqLog) = 1

C1_Witness ==
    /\ fpc = "done"
    /\ Len(served) = 3
    /\ Len(out) = 2 * pageSize + (pageSize - 1)
    /\ pageSize > 1

\* C3: when the executor has failed all its attempts on a page, the
\* call does not end in an error: it returns what it accumulated.
C3_FailureReturnsAccumulated ==
    (Len(attempts) = Retries + 1 /\ Failed(attempts) = 1..(Retries + 1))
       => (fpc = "done" /\ fetchErr = NoError /\ out = Concat(served))

\* C5: one request is attempted at most 3 times; no attempt follows a 2xx
\* response; the same fixed delay follows every failed attempt but the last;
\* when all 3 fail the call fails with the last attempt's status or message;
\* the executor never ends with neither a response nor an error.
C5_BoundedRetry ==
    /\ Len(attempts) <= 3
    /\ \A j \in 1..(Len(attempts) - 1) : attempts[j] \in FailKinds
    /\ \A j \in 1..Len(delays) : delays[j] = Delay
    /\ fpc = "sleep" => Len(delays) = Len(attempts) - 1
    /\ (fpc = "attempt" /\ i > 0) => (Len(delays) = Len(attempts) /\ Len(attempts) = i)
    /\ safeRes = "response" =>
         /\ attempts # <<>>
         /\ attempts[Len(attempts)] = "ok"
         /\ Len(delays) = Len(attempts) - 1
    /\ safeRes = "error" =>
         /\ Len(attempts) = 3
         /\ Failed(attempts) = 1..3
         /\ Len(delays) = 2
         /\ fetchErr = attempts[3]
         /\ fpc = "failed"
    /\ safeRes # "undefined"
    /\ fpc \in {"done", "failed"} => safeRes \in {"response", "error"}

C5_Witness ==
    /\ safeRes = "response"
    /\ Len(attempts) = 3
    /\ attempts[1] = HttpError
    /\ attempts[2] = TransportError
    /\ delays = <<Delay, Delay>>

(***************************************************************************)
(* Claims about the enrichment of the orders.                              *)
(***************************************************************************)
\* the entry of order k when all three of its fetches are served
FullyEnriched(k) ==
    [order |-> Obj(<< <<"id", Num(k)>>, <<"status", S("shipped")>>, <<"note", S("n")>>,
                      <<"shipping_method", S("UPS")>> >>),
     line_items |-> LineItemsOf(k),
     shipments |-> ShipmentsOf(k)]

\* C2 as stated: when the detail fetch of one order fails, the pool's result
\* holds an error marker in that order's slot and a fully enriched entry in
\* every other slot.
C2_ErrorMarkerOnDetailFailure ==
    ppc = "resolved" =>
      \A k \in 1..N :
        /\ failing[k] = "order" => results[k] = ErrorMarker
        /\ failing[k] = "none" => results[k] = FullyEnriched(k)

\* C2 amended: when the detail fetch of one order fails, the pool still
\* resolves with every slot written; that order's slot holds no error marker
\* but an entry made of the order's list snapshot (nothing merged over it),
\* its line items and its shipments, and every other slot is fully enriched.
C2_DetailFailureKeepsSnapshot ==
    ppc = "resolved" =>
      \A k \in 1..N :
        /\ results[k] # Hole
        /\ failing[k] = "order" =>
             results[k] = [order |-> Snapshot(k), line_items |-> LineItemsOf(k),
                           shipments |-> ShipmentsOf(k)]
        /\ failing[k] = "none" => results[k] = FullyEnriched(k)

C2_Witness ==
    /\ ppc = "resolved"
    /\ N = 3
    /\ failing = <<"none", "order", "none">>
    /\ results[3] = FullyEnriched(3)

\* C4: at most 5 orders have an enrichment task in flight, whatever the
\* number of orders and the order in which requests end, and an order's
\* task starts only in the step in which a runner ends its previous order
\* (or in the pool's start).
C4_AtMostFiveInFlight ==
    /\ [](Cardinality(InFlight) <= 5)
    /\ [][\A k \in 1..N :
            (k \notin 1..nextIdx /\ k \in 1..nextIdx') =>
               (ppc = "new" \/ \E j \in InFlight : j \in finished' /\ j \notin finished)]_vars

C4_Witness ==
    /\ ppc = "running"
    /\ N > 5
    /\ Cardinality(InFlight) = 5
    /\ nextIdx = 6
    /\ \A k \in InFlight : pending[k] > 0

(***************************************************************************)
(* Claims about the field reconciler.                                      *)
(***************************************************************************)
\* shipment s names the line item id, in line_item_ids or in its embedded
\* line_items, ids compared as strings
Refers(s, id) ==
    \/ /\ IsArray(Prop(s, "line_item_ids"))
       /\ \E j \in 1..Len(Prop(s, "line_item_ids").a) :
            ToStr(Prop(s, "line_item_ids").a[j]) = ToStr(id)
    \/ /\ IsArray(Prop(s, "line_items"))
       /\ \E j \in 1..Len(Prop(s, "line_items").a) :
            LET x == Prop(s, "line_items").a[j]
            IN ToStr(IF x.t = "object" THEN Prop(x, "id") ELSE x) = ToStr(id)

\* the tracking numbers of the shipments at idxs: the non-empty ones, each
\* once, in the order in which they are first seen, joined with "; "
FirstSeenJoined(ships, idxs) ==
    LET t == [j \in 1..Len(ships) |-> ShipTracking(ships[j])]
        keep == { j \in idxs : t[j] # Empty /\ \A k \in idxs : k < j => t[k] # t[j] }
        RECURSIVE From(_)
        From(j) == IF j > Len(ships) THEN <<>>
                   ELSE (IF j \in keep THEN <<t[j].s>> ELSE <<>>) \o From(j + 1)
    IN Str(JoinChars(From(1), <<";", " ">>))

\* C9 as stated: the joined tracking numbers of the shipments that reference
\* the line item; those of all shipments only if no shipment references it;
\* the empty string without shipments.
C9_FallbackOnlyWithoutReference ==
    (rpc = "tracking" /\ rOut # Thrown) =>
      LET id == Prop(rLi, "id")
          refs == { j \in 1..Len(rShips) : Refers(rShips[j], id) }
      IN rOut = IF rShips = <<>> THEN Empty
                ELSE IF refs # {} THEN FirstSeenJoined(rShips, refs)
                ELSE FirstSeenJoined(rShips, 1..Len(rShips))

\* C9 amended: whenever the call returns, the result is the joined tracking
\* numbers of the shipments that reference the line item and have a tracking
\* number; if no such shipment exists (none references the line item, or
\* those that do have no tracking number), the joined tracking numbers of
\* all shipments; the empty string without shipments.
C9_TrackingResolution ==
    (rpc = "tracking" /\ rOut # Thrown) =>
      LET id == Prop(rLi, "id")
          refs == { j \in 1..Len(rShips) :
                      Refers(rShips[j], id) /\ ShipTracking(rShips[j]) # Empty }
      IN rOut = IF rShips = <<>> THEN Empty
                ELSE IF refs # {} THEN FirstSeenJoined(rShips, refs)
                ELSE FirstSeenJoined(rShips, 1..Len(rShips))

C9_Witness ==
    /\ rpc = "tracking"
    /\ Len(rShips) = 3
    /\ rShips[1] = rShips[3]
    /\ Prop(rLi, "id") = Num(1)
    /\ rOut = Str(<<"A", ";", " ", "B">>)

Column(name) == CHOOSE j \in 1..Len(ALL_COLUMNS) : ALL_COLUMNS[j] = name

\* C6: the reconciler never throws, whatever the shapes and types of the
\* fields of the order, the line item and the shipments.
C6_ReconcilerNeverThrows ==
    /\ rpc = "tracking" => rOut # Thrown
    /\ rpc \in {"detailed", "summary"} => ~rOut.threw

\* C8: every emitted row, detailed or summary, has 34 values, one for each
\* column in the columns' order, none of them null or undefined, and the
\* empty string where a field could not be resolved.
C8_RowsHave34Values ==
    (rpc \in {"detailed", "summary"} /\ ~rOut.threw) =>
      /\ Len(rOut.row) = 34
      /\ Len(rOut.row) = Len(ALL_COLUMNS)
      /\ \A j \in 1..Len(rOut.row) : rOut.row[j].t \notin {"undefined", "null"}
      /\ rOut.row[Column("Order #")]
            = Str(ToStr(Or(Or(Prop(rOrder, "order_id"), Prop(rOrder, "id")), Empty)))
      /\ rpc = "detailed" =>
           /\ rOut.row[Column("Line Item ID")] = Str(ToStr(Or(Prop(rLi, "id"), Empty)))
           /\ Prop(rLi, "quantity") = Undef => rOut.row[Column("Quantity")] = Empty
           /\ rShips = <<>> =>
                /\ rOut.row[Column("Tracking #")] = Empty
                /\ rOut.row[Column("Ship Date")] = Empty
      /\ rpc = "summary" =>
           \A c \in {"Line Item ID", "Tracking #", "Ship Date", "Product Personalization",
                      "Quantity", "Product Name", "Product Options"} :
              rOut.row[Column(c)] = Empty

C8_Witness ==
    /\ rpc = "detailed"
    /\ ~rOut.threw
    /\ rShips = <<>>
    /\ rOut.row[Column("Ship Date")] = Empty
    /\ rOut.row[Column("Billing Name")] = Str(<<"J", " ", "D">>)

\* C10: the representative of a line item is the first shipment of the list
\* that names its id, else the first shipment, else none; without shipments
\* ship cost, ship method and ship date are the order-level value or ''.
C10_RepresentativeShipment ==
    (rpc = "detailed" /\ ~rOut.threw) =>
      LET refs == { j \in 1..Len(rShips) : Refers(rShips[j], Prop(rLi, "id")) }
      IN /\ rOut.rep = IF refs # {} THEN CHOOSE j \in refs : \A k \in refs : j <= k
                       ELSE IF rShips # <<>> THEN 1 ELSE 0
         /\ rShips = <<>> =>
              /\ rOut.row[Column("Shipping Landded Cost")]
                    = Or(Prop(rOrder, "shipping_total"), Empty)
              /\ rOut.row[Column("Ship Method")] = Or(Prop(rOrder, "shipping_method"), Empty)
              /\ rOut.row[Column("Ship Date")] = Empty

\* the part of C10 that holds: the choice of the representative, and the
\* ship cost and ship date without shipments
C10_RepresentativeChoice ==
    (rpc = "detailed" /\ ~rOut.threw) =>
      LET refs == { j \in 1..Len(rShips) : Refers(rShips[j], Prop(rLi, "id")) }
      IN /\ rOut.rep = IF refs # {} THEN CHOOSE j \in refs : \A k \in refs : j <= k
                       ELSE IF rShips # <<>> THEN 1 ELSE 0
         /\ rShips = <<>> =>
              /\ rOut.row[Column("Shipping Landded Cost")]
                    = Or(Prop(rOrder, "shipping_total"), Empty)
              /\ rOut.row[Column("Ship Method")] = Empty
              /\ rOut.row[Column("Ship Date")] = Empty

(***************************************************************************)
(* Claims about the rows of a run.                                         *)
(***************************************************************************)
\* the line items the run fetched for order k: those the upstream holds,
\* unless the order has no identifier or the fetch of its line items failed
FetchedLineItems(k) ==
    IF failing[k] \in {"none", "order", "shipments"} THEN LineItemsOf(k) ELSE <<>>

\* the <<Order #, Line Item ID>> pairs of the fetched orders, in order
FetchedPairs ==
    Flatten([k \in 1..N |->
               [j \in 1..Len(FetchedLineItems(k)) |->
                  <<Str(Digits(k)), Str(ToStr(Prop(FetchedLineItems(k)[j], "id")))>>]])

\* C7: a detailed run answers with one row for every line item of every
\* fetched order, a summary run with one row for every fetched order, in
\* the orders' order; meta.orders and meta.rows count the orders and rows.
C7_RowMultiplicity ==
    resp.status = 200 =>
      /\ resp.meta.orders = N
      /\ resp.meta.rows = Len(resp.rows)
      /\ ReportType(req) = "Needed Excel" =>
           [j \in 1..Len(resp.rows) |->
              <<resp.rows[j][Column("Order #")], resp.rows[j][Column("Line Item ID")]>>]
             = FetchedPairs
      /\ ReportType(req) # "Needed Excel" =>
           /\ Len(resp.rows) = N
           /\ \A k \in 1..N :
                resp.rows[k][Column("Order #")]
                  = Str(ToStr(Or(Prop(orders[k], "id"), Empty)))

C7_Witness ==
    /\ resp.status = 200
    /\ ReportType(req) = "Needed Excel"
    /\ N = 3
    /\ failing = <<"none", "none", "none">>
    /\ Len(resp.rows) = 3
    /\ resp.rows[3][Column("Line Item ID")] = Str(<<"2", "2">>)

(***************************************************************************)
(* Claims about the address blob.                                          *)
(***************************************************************************)
\* the aliases of the address-line fields: a in the supplied address object,
\* o in the order-level address object, s in the shipment's address
AddressLineKeys ==
    [ address1 |-> [a |-> <<"address1", "first_address", "firstAddress", "address", "street1">>,
                    o |-> <<"first_address", "firstAddress", "address1", "street1">>,
                    s |-> <<"address1", "first_address", "address", "street1">>],
      address2 |-> [a |-> <<"address2", "second_address", "secondAddress", "address_line_2",
                            "street2">>,
                    o |-> <<"second_address", "secondAddress", "address2">>,
                    s |-> <<"address2", "second_address">>],
      city |-> [a |-> <<"city", "town">>, o |-> <<"city">>, s |-> <<"city">>],
      state |-> [a |-> <<"state", "province", "region">>, o |-> <<"state">>, s |-> <<"state">>],
      zip |-> [a |-> <<"zip", "postcode", "postal_code", "postal">>,
               o |-> <<"zip", "postcode", "postal_code">>,
               s |-> <<"zip", "postal_code">>],
      country |-> [a |-> <<"country", "country_name">>, o |-> <<"country">>, s |-> <<"country">>] ]

\* one address-line field: the supplied address object, then the order-level
\* address object oAddr, then the shipment's address sAddr, else empty
LineField(addr, oAddr, sAddr, k) ==
    Or(Or(Or(Get(addr, k.a), Get(oAddr, k.o)), Get(sAddr, k.s)), Empty)

\* the blob whose address-line fields are resolved from addr, oAddr and sAddr
BlobOver(oAddr, sAddr) ==
    LET addr == BlobAddr(bOrder, bCall)
        role == BlobRole(bCall)
        f(name) == LineField(addr, oAddr, sAddr, AddressLineKeys[name])
    IN Join(FilterNonBlank(
              << BlobName(addr, bOrder, role, bShip),
                 BlobCompany(addr, bOrder, role, bShip),
                 JoinNonEmpty(<<f("address1"), f("address2")>>, <<" ">>),
                 JoinNonEmpty(<<f("city"),
                                Join(FilterNonBlank(<<f("state"), f("zip")>>), <<" ">>)>>,
                              <<",", " ">>),
                 f("country"),
                 BlobEmail(addr, bOrder, role, bShip),
                 BlobPhone(addr, bOrder, role) >>),
            <<" ", "|", " ">>)

NoObject == Obj(<<>>)

\* C11 as stated: every address-line field comes from the supplied address
\* object, then the order-level address object of the requested role, then
\* (shipping role only) the shipment's address; a billing blob takes nothing
\* from the order's shipping address.
C11_OwnRoleAddressOnly ==
    (bpc = "composed" /\ bOut # Thrown /\ bCall \in {"billing", "shipping"}) =>
        bOut = BlobOver(Or(Prop(bOrder, bCall \o "_address"), NoObject),
                        IF bCall = "shipping" THEN ShipmentAddr(bShip) ELSE NoObject)

\* C11 as the code has it: every address-line field comes from the supplied
\* address object, then one order-level address object, then the address of
\* the shipment handed over (the shipping blob of a detailed row alone is
\* handed one).  The order-level address object is that of the requested role
\* when the order has one, else that of the other role; the blobs of a
\* summary row name no role and take shipping_address, then billing_address.
C11_AddressPrecedence ==
    (bpc = "composed" /\ bOut # Thrown) =>
        bOut = BlobOver(IF bCall = "billing"
                        THEN Or(Or(Prop(bOrder, "billing_address"),
                                   Prop(bOrder, "shipping_address")), NoObject)
                        ELSE Or(Or(Prop(bOrder, "shipping_address"),
                                   Prop(bOrder, "billing_address")), NoObject),
                        ShipmentAddr(bShip))

\* a billing blob that shows the city of the order's shipping address
C11_Witness ==
    /\ bpc = "composed"
    /\ bCall = "billing"
    /\ bOrder = Obj(<< <<"shipping_address", Obj(<< <<"city", S("s")>> >>)>> >>)
    /\ bOut = S("s")

\* the separator of the blob, and the places of a string where it stands
BlobSep == <<" ", "|", " ">>
SepPlaces(chars) ==
    { j \in 1..(Len(chars) - 2) : SubSeq(chars, j, j + 2) = BlobSep }

\* name, company, "address1 address2", "city, state zip", country, email and
\* phone of the call, as characters
SegmentTexts ==
    LET addr == BlobAddr(bOrder, bCall)
        role == BlobRole(bCall)
        text(v) == Trim(ToStr(v))
        spaced(v, w) == IF text(v) = <<>> THEN ToStr(w)
                        ELSE IF text(w) = <<>> THEN ToStr(v)
                        ELSE ToStr(v) \o <<" ">> \o ToStr(w)
        city == BlobCity(addr, bOrder, role, bShip)
        stateZip == spaced(BlobState(addr, bOrder, role, bShip),
                           BlobZip(addr, bOrder, role, bShip))
    IN << ToStr(BlobName(addr, bOrder, role, bShip)),
          ToStr(BlobCompany(addr, bOrder, role, bShip)),
          spaced(BlobAddress1(addr, bOrder, role, bShip),
                 BlobAddress2(addr, bOrder, role, bShip)),
          IF text(city) = <<>> THEN stateZip
          ELSE IF stateZip = <<>> THEN ToStr(city)
          ELSE ToStr(city) \o <<",", " ">> \o stateZip,
          ToStr(BlobCountry(addr, bOrder, role, bShip)),
          ToStr(BlobEmail(addr, bOrder, role, bShip)),
          ToStr(BlobPhone(addr, bOrder, role)) >>

RECURSIVE NonEmptyTexts(_)
NonEmptyTexts(texts) ==
    IF texts = <<>> THEN <<>>
    ELSE (IF Trim(Head(texts)) = <<>> THEN <<>> ELSE <<Head(texts)>>)
         \o NonEmptyTexts(Tail(texts))

\* C12: the blob is the " | "-join of the non-empty segments among name,
\* company, "address1 address2", "city, state zip", country, email, phone, in
\* that order; an empty or blank segment adds neither text nor separator, so
\* the blob has one separator fewer than non-empty segments, none of them at
\* its start, at its end or next to another; it is '' when all are empty.
C12_BlobIsJoinOfNonEmptySegments ==
    (bpc = "composed" /\ bOut # Thrown) =>
        LET kept == NonEmptyTexts(SegmentTexts)
            places == SepPlaces(bOut.s)
        IN /\ bOut = Str(JoinChars(kept, BlobSep))
           /\ Cardinality(places) = IF kept = <<>> THEN 0 ELSE Len(kept) - 1
           /\ 1 \notin places
           /\ (Len(bOut.s) - 2) \notin places
           /\ \A j \in places : (j + 3) \notin places
           /\ (kept = <<>>) <=> (bOut = Empty)

\* the blob of {first_name: "Jo", zip: "10001"} alone is "Jo | 10001"
C12_Witness ==
    /\ bpc = "composed"
    /\ bOrder = Obj(<< <<"billing", Obj(<< <<"first_name", Str(<<"J", "o">>)>>,
                                            <<"zip", Str(<<"1", "0", "0", "0", "1">>)>> >>)>> >>)
    /\ bCall = "billing"
    /\ BlobAddr(bOrder, bCall) = Obj(<< <<"first_name", Str(<<"J", "o">>)>>,
                                        <<"zip", Str(<<"1", "0", "0", "0", "1">>)>> >>)
    /\ bOut = Str(<<"J", "o", " ", "|", " ", "1", "0", "0", "0", "1">>)

(***************************************************************************)
(* Claims about the validation of a run request.                           *)
(***************************************************************************)
\* C13: a run whose storeKey is absent or is no key of the configured store
\* mapping is answered 400, sends nothing to the upstream and produces no
\* rows; a failure after the check is answered 500, never with rows.
C13_UnknownStoreRejected ==
    /\ (runpc \notin {"idle", "received"} /\ req.storeKey \notin ConfiguredStores) =>
          /\ resp.status = 400
          /\ ~contacted
          /\ "rows" \notin DOMAIN resp
    /\ resp.status \in {400, 500} => "rows" \notin DOMAIN resp

(***************************************************************************)
(* Claims about the number of items the fetcher returns.                   *)
(***************************************************************************)
\* the sizes of the pages served so far
PageSizes == [j \in 1..Len(served) |-> Len(served[j])]

\* the fetcher has stopped after page 3 and asked for no 4th page
StoppedAfterPage3 ==
    /\ fpc = "done"
    /\ page = 3
    /\ \A j \in 1..Len(reqLog) : reqLog[j].page \in 1..3

\* C14 as stated: with pages of sizes [N, N, N-1] the fetcher returns exactly
\* 3*N + (N-1) items and stops after page 3.
C14_ReturnsThreeNPlus ==
    PageSizes = <<pageSize, pageSize, pageSize - 1>> =>
        /\ Len(out) = 3 * pageSize + (pageSize - 1)
        /\ StoppedAfterPage3

\* C14 as the code has it: with pages of sizes [N, N, N-1] the fetcher returns
\* exactly N + N + (N-1) items, those of the three pages in order, and stops
\* after page 3.
C14_ReturnsAllThreePages ==
    PageSizes = <<pageSize, pageSize, pageSize - 1>> =>
        /\ Len(out) = pageSize + pageSize + (pageSize - 1)
        /\ out = served[1] \o served[2] \o served[3]
        /\ StoppedAfterPage3

C14_Witness ==
    /\ pageSize = MaxPageSize
    /\ PageSizes = <<pageSize, pageSize, pageSize - 1>>
    /\ Len(out) = 3 * pageSize - 1
    /\ Len(reqLog) > 3

(***************************************************************************)
(* Claims about the order of the pool's results.                           *)
(***************************************************************************)
\* the <<Order #, Line Item ID>> pairs of the detailed rows made of results
ResultPairs ==
    LET computed == Flatten([k \in 1..N |-> EntryRows(results[k])])
    IN [j \in 1..Len(computed) |->
          <<computed[j].row[Column("Order #")], computed[j].row[Column("Line Item ID")]>>]

\* C15: whatever the order in which the requests end, the items are claimed
\* one after the other, each once and none skipped; a slot of results is
\* written once, with the outcome (value or error marker) of the item of the
\* same index; when the pool resolves every slot is written, and the detailed
\* rows made of the results are in the order of the fetched orders.
C15_ResultsInItemOrder ==
    /\ [](/\ nextIdx \in 0..N
          /\ finished \subseteq 1..nextIdx
          /\ \A k \in 1..N :
               results[k] = IF k \in finished
                            THEN WorkerResult(orders[k], failing[k]) ELSE Hole
          /\ ppc = "resolved" =>
               /\ nextIdx = N
               /\ finished = 1..N
               /\ ResultPairs = FetchedPairs)
    /\ [][/\ nextIdx' >= nextIdx
          /\ finished \subseteq finished'
          /\ Cardinality(finished' \ finished) <= 1
          /\ \A k \in finished : results'[k] = results[k]]_vars

\* more orders than runners, and order 6 settled before order 1
C15_Witness ==
    /\ ppc = "running"
    /\ N = 6
    /\ finished = {2, 6}
    /\ results[1] = Hole
    /\ results[6] = WorkerResult(orders[6], failing[6])
    /\ results[6] # results[2]

(***************************************************************************)
(* Claims about the shipping columns and the tracking column.              *)
(***************************************************************************)
RECURSIVE TrackingEntries(_, _)
\* the "; "-separated entries of the characters of a Tracking # value
TrackingEntries(chars, entry) ==
    IF chars = <<>> THEN {entry}
    ELSE IF Len(chars) >= 2 /\ chars[1] = ";" /\ chars[2] = " "
    THEN {entry} \cup TrackingEntries(SubSeq(chars, 3, Len(chars)), <<>>)
    ELSE TrackingEntries(Tail(chars), Append(entry, Head(chars)))

\* C16: in a detailed row, when the representative shipment of the line item
\* (the one the ship cost, ship method and ship date are read from) has a
\* non-empty tracking number, that number is one of the "; "-separated
\* entries of the row's Tracking # value.
C16_RepresentativeIsTracked ==
    (rpc = "detailed" /\ ~rOut.threw /\ rOut.rep > 0) =>
        LET rep == rShips[rOut.rep]
        IN /\ rOut.row[Column("Ship Date")] = ShipDate(rep)
           /\ rOut.row[Column("Ship Method")] = ShipMethod(rep, rOrder)
           /\ Truthy(ShipTracking(rep)) =>
                ToStr(ShipTracking(rep))
                   \in TrackingEntries(rOut.row[Column("Tracking #")].s, <<>>)

\* two shipments name the line item: the first one is the representative and
\* both are tracked
C16_Witness ==
    /\ rpc = "detailed"
    /\ ~rOut.threw
    /\ Len(rShips) = 2
    /\ rOut.rep = 1
    /\ ShipTracking(rShips[1]) = S("A")
    /\ rOut.row[Column("Ship Date")] = S("e")
    /\ rOut.row[Column("Tracking #")] = Str(<<"A", ";", " ", "B">>)

=============================================================================
